---- MODULE Spec2Model ----
(***************************************************************************)
(* Model of obspy.mseed.libmseed (the Python wrapper around libmseed):     *)
(* gap/overlap listing (getGapList), min/max downsampling                  *)
(* (graph_create_min_max_list, getMinMaxList), the rate tolerance test     *)
(* (isRateTolerable), writing, cutting and reading back a trace            *)
(* (write_ms, cut_ms, read_ms_using_traces), record-by-record reading      *)
(* (read_MSRec, getFirstRecordHeaderInfo, getStartAndEndTime,              *)
(* readMSusingRecords, printrecordinfo) and the time string conversions;   *)
(* and of the rotations rotate_ZNE_LQT / rotate_LQT_ZNE of                 *)
(* obspy.signal.rotate.                                                    *)
(*                                                                         *)
(* Times are integer microseconds (hptime_t).  Floating point values       *)
(* (sample rates, gaps in seconds, sample counts of a gap) are modelled as *)
(* exact rationals <<numerator, denominator>> in lowest terms with a       *)
(* positive denominator, so that equality of values is equality of pairs.  *)
(***************************************************************************)
EXTENDS Integers, Sequences, FiniteSets, TLC

VARIABLES
    file,        \* the Mini-SEED file: the sequence of its records
    min_gap,     \* getGapList argument (None or a number of seconds)
    max_gap,     \* getGapList argument (None or a number of seconds)
    mstg,        \* the MSTraceGroup: the sequence of its traces
    pc,          \* position of the running call
    i,           \* number of loop iterations done (the xrange counter)
    cur,         \* index in mstg of the trace `cur` points to
    gap_list,    \* the descriptors appended so far
    pairs,       \* history: for each descriptor, the index of its pair's cur
    stdout,      \* history: the warnings printed so far
    err,         \* the exception the call raised, "none" otherwise
    width,       \* graph_create_min_max_list argument
    timespan,    \* graph_create_min_max_list argument
    minmaxlist,  \* the columns appended so far
    spans,       \* history: for each column, the sample slice it was taken from
    op,          \* the method that was called
    args,        \* its arguments other than the header
    ret,         \* its return value, None until it returns
    header,      \* the header dictionary handed to write_ms / cut_ms
    cutdata,     \* the list cut_ms hands to write_ms
    datasamples, \* the samples of the MSTrace that are not packed yet
    build,       \* sizeof(c_void_p) of the running interpreter
    msfile,      \* the file ms_readmsr holds open, None after a reset
    fpos,        \* ms_readmsr: number of records of msfile read so far
    msrecord,    \* the list readMSusingRecords builds
    oldstarttime \* printrecordinfo: end of the record printed before

vars == <<file, min_gap, max_gap, mstg, pc, i, cur, gap_list, pairs, stdout,
          err, width, timespan, minmaxlist, spans, op, args, ret, header,
          cutdata, datasamples, build, msfile, fpos, msrecord,
          oldstarttime>>

envVars == <<width, timespan, minmaxlist, spans>>

callVars == <<op, args, ret>>

packVars == <<header, cutdata, datasamples, build>>

readVars == <<msfile, fpos, msrecord, oldstarttime>>

None == "None"

-----------------------------------------------------------------------------
(* Exact arithmetic standing for Python floats.                            *)

Abs(x) == IF x < 0 THEN -x ELSE x

RECURSIVE GCD(_, _)
GCD(a, b) == IF b = 0 THEN a ELSE GCD(b, a % b)

\* n/d in lowest terms, d # 0
Rat(n, d) ==
    LET g == GCD(Abs(n), Abs(d))
        s == IF d < 0 THEN -1 ELSE 1
    IN  <<(s * n) \div g, (s * d) \div g>>

Zero == <<0, 1>>
One == <<1, 1>>
FromInt(n) == <<n, 1>>

RAdd(x, y) == Rat(x[1] * y[2] + y[1] * x[2], x[2] * y[2])
RSub(x, y) == Rat(x[1] * y[2] - y[1] * x[2], x[2] * y[2])
RMul(x, y) == Rat(x[1] * y[1], x[2] * y[2])
\* y # Zero: Python raises ZeroDivisionError before this is evaluated
RDiv(x, y) == Rat(x[1] * y[2], x[2] * y[1])
RAbs(x) == <<Abs(x[1]), x[2]>>
RLess(x, y) == x[1] * y[2] < y[1] * x[2]
RFloor(x) == x[1] \div x[2]

-----------------------------------------------------------------------------
(* Program constants.                                                      *)

\* obspy.mseed.headers.HPTMODULUS: high precision time ticks per second
HPTMODULUS == 1000000

\* the default sample rate tolerance of isRateTolerable, as 1/RateTolInv
RateTolInv == 10000

-----------------------------------------------------------------------------
(* Bounds of the model.                                                    *)

MaxRecords == 3      \* records in a file
RecSamples == 3      \* samples carried by one data record
MaxSamples == 6      \* samples of the trace that is downsampled
MaxWidth == 4        \* requested number of columns
MaxComponent == 2    \* samples of a seismogram component that is rotated

-----------------------------------------------------------------------------
(* Files.                                                                  *)

IdA == [network |-> "BW", station |-> "FUR", location |-> "", channel |-> "EHZ"]
IdB == [network |-> "BW", station |-> "FUR", location |-> "", channel |-> "EHN"]
Ids == {IdA, IdB}

\* sample rates in Hz; 0 is a state-of-health record
Rates == {Zero, FromInt(100), FromInt(200)}

\* start of the first record of a file
T0 == HPTMODULUS

\* start of a record relative to the end of the record before it, in
\* microseconds: one and two sample periods at 100 Hz, two seconds, and a
\* record that starts 20 ms before the previous one ends
Offsets == {10000, 20000, 2000000, -20000}

\* msr_endtime: time of the last sample of a record or trace
EndTime(starttime, samprate, samplecnt) ==
    IF RLess(Zero, samprate) /\ samplecnt > 0
    THEN starttime +
         RFloor(RAdd(RDiv(FromInt((samplecnt - 1) * HPTMODULUS), samprate),
                     <<1, 2>>))
    ELSE starttime

Record(id, starttime, samprate) ==
    [network |-> id.network, station |-> id.station,
     location |-> id.location, channel |-> id.channel,
     starttime |-> starttime, samprate |-> samprate,
     samplecnt |-> RecSamples]

RecEnd(r) == EndTime(r.starttime, r.samprate, r.samplecnt)

\* what distinguishes a record from the one before it in the file
Choices == Ids \X Offsets \X Rates

\* the file that starts with the records f and goes on as `rest` chooses:
\* every later record is placed relative to the end of the record before it
RECURSIVE BuildFile(_, _, _)
BuildFile(f, rest, k) ==
    IF k > Len(rest) THEN f
    ELSE BuildFile(Append(f, Record(rest[k][1],
                                    RecEnd(f[Len(f)]) + rest[k][2],
                                    rest[k][3])),
                   rest, k + 1)

\* the file is empty, or has a first record of identifier IdA at T0 and up
\* to MaxRecords - 1 records after it, or is two records at 100 Hz with the
\* second starting 2 ms or 7 ms, less than a sample period, after the last
\* sample of the first
IsFile(f) ==
    \/ f = <<>>
    \/ \E r \in Rates, n \in 0..(MaxRecords - 1) :
           \E rest \in [1..n -> Choices] :
               f = BuildFile(<<Record(IdA, T0, r)>>, rest, 1)
    \/ \E id \in Ids, off \in {2000, 7000} :
           f = BuildFile(<<Record(IdA, T0, FromInt(100))>>,
                         <<<<id, off, FromInt(100)>>>>, 1)

\* values passed as min_gap / max_gap
GapArgs == {None, Zero, One}

-----------------------------------------------------------------------------
(* isRateTolerable and the trace assembly of ms_readtraces.                *)

\* the quotients that are exactly 0.9999 and 1.0001: the doubles nearest to
\* them are 0.99990000000000001101 and 1.00009999999999998899, so that
\* fabs(1.0 - quotient) is the double 0.00009999999999998899, which is less
\* than the double 0.0001 (0.000100000000000000004792)
RoundsBelowTolerance(q) ==
    q \in {<<RateTolInv - 1, RateTolInv>>, <<RateTolInv + 1, RateTolInv>>}

\* the comparison done in exact arithmetic
isRateTolerableExact(sr1, sr2) ==
    RLess(RAbs(RSub(One, RDiv(sr1, sr2))), <<1, RateTolInv>>)

\* the comparison made relative to the larger of the two rates, whichever
\* argument it is
isRateTolerableLargerReference(sr1, sr2) ==
    IF RLess(RAbs(sr2), RAbs(sr1))
    THEN RLess(RAbs(RSub(One, RDiv(sr2, sr1))), <<1, RateTolInv>>)
    ELSE RLess(RAbs(RSub(One, RDiv(sr1, sr2))), <<1, RateTolInv>>)

\* line 484; sr2 # 0, the division raises ZeroDivisionError otherwise
isRateTolerable(sr1, sr2) ==
    LET q == RDiv(sr1, sr2)
    IN  \/ RLess(RAbs(RSub(One, q)), <<1, RateTolInv>>)
        \/ RoundsBelowTolerance(q)

SameId(a, b) ==
    /\ a.network = b.network
    /\ a.station = b.station
    /\ a.location = b.location
    /\ a.channel = b.channel

NewTrace(r) ==
    [network |-> r.network, station |-> r.station, location |-> r.location,
     channel |-> r.channel, starttime |-> r.starttime, endtime |-> RecEnd(r),
     samprate |-> r.samprate, samplecnt |-> r.samplecnt]

\* record r continues trace t: both rates non-zero and tolerable, and r starts
\* within half a sample period of the time the next sample of t is due (the
\* default tolerances, timetol = sampratetol = -1)
Continues(t, r) ==
    /\ SameId(t, r)
    /\ t.samprate # Zero
    /\ r.samprate # Zero
    /\ isRateTolerable(t.samprate, r.samprate)
    /\ LET period == RDiv(FromInt(HPTMODULUS), t.samprate)
           postgap == RSub(FromInt(r.starttime - t.endtime), period)
       IN  ~ RLess(RDiv(period, FromInt(2)), RAbs(postgap))

Extend(t, r) ==
    [t EXCEPT !.samplecnt = t.samplecnt + r.samplecnt,
              !.endtime = EndTime(t.starttime, t.samprate,
                                  t.samplecnt + r.samplecnt)]

\* index of the most recent trace of the group with r's identifier, 0 if none
LastOfId(group, r) ==
    LET S == {k \in 1..Len(group) : SameId(group[k], r)}
    IN  IF S = {} THEN 0 ELSE CHOOSE k \in S : \A j \in S : j <= k

AddRecord(group, r) ==
    LET k == LastOfId(group, r)
    IN  IF k # 0 /\ Continues(group[k], r)
        THEN [group EXCEPT ![k] = Extend(group[k], r)]
        ELSE Append(group, NewTrace(r))

RECURSIVE Assemble(_, _)
Assemble(recs, group) ==
    IF recs = <<>> THEN group
    ELSE Assemble(Tail(recs), AddRecord(group, Head(recs)))

\* a reader that makes a trace of every record
readTracesPerRecord(f) == [k \in 1..Len(f) |-> NewTrace(f[k])]

\* lines 380-391, with the default tolerances
readTraces(f) == Assemble(f, <<>>)

-----------------------------------------------------------------------------
(* getGapList.                                                             *)

\* datetime.utcfromtimestamp of a number of seconds x: the whole seconds, and
\* the fraction rounded to microseconds and carried into the seconds
utcfromtimestamp(x) ==
    LET timet == x[1] \div x[2]
        frac == x[1] - timet * x[2]
        g == GCD(1000000, x[2])
        us == (2 * frac * (1000000 \div g) + x[2] \div g)
                  \div (2 * (x[2] \div g))
    IN  [second |-> timet + us \div 1000000, microsecond |-> us % 1000000]

\* Python truth value of an optional number: None and 0 are false
Truthy(x) == x # None /\ x # Zero

\* a getGapList without the zero-rate check
SkipsPairNever(c) == FALSE

\* line 530: traces with 0 sample rate are skipped
SkipsPair(c) == c.samprate = Zero

\* a gap computed with an integer HPTMODULUS: Python 2 integer division
RawGapTruncated(c, n) == FromInt((n.starttime - c.endtime) \div HPTMODULUS)

\* a gap measured from the start of cur instead of its end
RawGapFromStart(c, n) ==
    RDiv(FromInt(n.starttime - c.starttime), FromInt(HPTMODULUS))

\* line 537
RawGap(c, n) == RDiv(FromInt(n.starttime - c.endtime), FromInt(HPTMODULUS))

\* lines 540-544; n.samprate # 0 here (see GapZeroDivision)
MaxOverlap(n) ==
    LET delta == IF n.samprate # Zero THEN RDiv(One, n.samprate) ELSE Zero
    IN  RAdd(RDiv(FromInt(n.endtime - n.starttime), FromInt(HPTMODULUS)),
             delta)

\* lines 537-546
ClampedGap(c, n) ==
    LET gap == RawGap(c, n)
        temp == MaxOverlap(n)
    IN  IF RLess(gap, Zero) /\ RLess(temp, RMul(gap, FromInt(-1)))
        THEN RMul(FromInt(-1), temp)
        ELSE gap

\* line 548
OmitByMin(mn, gap) == Truthy(mn) /\ RLess(gap, mn)

\* line 551
OmitByMax(mx, gap) == Truthy(mx) /\ RLess(mx, gap)

\* a sample count without the boundary-sample adjustment
NSamplesNoAdjust(gap, c) == RMul(RAbs(gap), c.samprate)

\* lines 555-559
NSamples(gap, c) ==
    LET nsamples == RMul(RAbs(gap), c.samprate)
    IN  IF RLess(Zero, gap) THEN RSub(nsamples, One) ELSE RAdd(nsamples, One)

\* lines 561-564
Descriptor(c, n, gap) ==
    <<c.network, c.station, c.location, c.channel,
      utcfromtimestamp(RDiv(FromInt(c.endtime), FromInt(HPTMODULUS))),
      utcfromtimestamp(RDiv(FromInt(n.starttime), FromInt(HPTMODULUS))),
      gap, NSamples(gap, c)>>

numtraces == Len(mstg)

\* lines 521-526: the file is read; with no trace the group's trace pointer
\* is NULL and taking its contents raises ValueError
GapReadTraces ==
    /\ pc = "call"
    /\ mstg' = readTraces(file)
    /\ IF Len(mstg') = 0
       THEN /\ pc' = "raised"
            /\ err' = "ValueError"
            /\ cur' = cur
       ELSE /\ pc' = "loop"
            /\ err' = err
            /\ cur' = 1
    /\ UNCHANGED <<file, min_gap, max_gap, i, gap_list, pairs, stdout>>
    /\ UNCHANGED <<readVars, envVars, callVars, packVars>>

InLoop == pc = "loop" /\ i < numtraces - 1

\* lines 530-532
GapSkipZeroRate ==
    /\ InLoop
    /\ SkipsPair(mstg[cur])
    /\ cur' = cur + 1
    /\ i' = i + 1
    /\ UNCHANGED <<file, min_gap, max_gap, mstg, pc, gap_list, pairs, stdout,
                   err>>
    /\ UNCHANGED <<readVars, envVars, callVars, packVars>>

\* line 484: sr1 / float(sr2) with sr2 = 0.0
GapZeroDivision ==
    /\ InLoop
    /\ ~ SkipsPair(mstg[cur])
    /\ mstg[cur + 1].samprate = Zero
    /\ pc' = "raised"
    /\ err' = "ZeroDivisionError"
    /\ UNCHANGED <<file, min_gap, max_gap, mstg, i, cur, gap_list, pairs,
                   stdout>>
    /\ UNCHANGED <<readVars, envVars, callVars, packVars>>

\* lines 534-536: the message has three conversions and is given two values,
\* so formatting it raises TypeError before anything is printed
GapRateChanged ==
    /\ InLoop
    /\ ~ SkipsPair(mstg[cur])
    /\ mstg[cur + 1].samprate # Zero
    /\ ~ isRateTolerable(mstg[cur].samprate, mstg[cur + 1].samprate)
    /\ pc' = "raised"
    /\ err' = "TypeError"
    /\ UNCHANGED <<file, min_gap, max_gap, mstg, i, cur, gap_list, pairs,
                   stdout>>
    /\ UNCHANGED <<readVars, envVars, callVars, packVars>>

Examined ==
    /\ InLoop
    /\ ~ SkipsPair(mstg[cur])
    /\ mstg[cur + 1].samprate # Zero
    /\ isRateTolerable(mstg[cur].samprate, mstg[cur + 1].samprate)

\* lines 548-553
GapOmit ==
    /\ Examined
    /\ LET gap == ClampedGap(mstg[cur], mstg[cur + 1])
       IN  \/ OmitByMin(min_gap, gap)
           \/ ~ OmitByMin(min_gap, gap) /\ OmitByMax(max_gap, gap)
    /\ cur' = cur + 1
    /\ i' = i + 1
    /\ UNCHANGED <<file, min_gap, max_gap, mstg, pc, gap_list, pairs, stdout,
                   err>>
    /\ UNCHANGED <<readVars, envVars, callVars, packVars>>

\* lines 555-565
GapAppend ==
    /\ Examined
    /\ LET gap == ClampedGap(mstg[cur], mstg[cur + 1])
       IN  /\ ~ OmitByMin(min_gap, gap)
           /\ ~ OmitByMax(max_gap, gap)
           /\ gap_list' = Append(gap_list,
                                 Descriptor(mstg[cur], mstg[cur + 1], gap))
    /\ pairs' = Append(pairs, cur)
    /\ cur' = cur + 1
    /\ i' = i + 1
    /\ UNCHANGED <<file, min_gap, max_gap, mstg, pc, stdout, err>>
    /\ UNCHANGED <<readVars, envVars, callVars, packVars>>

\* line 566
GapReturn ==
    /\ pc = "loop"
    /\ ~ (i < numtraces - 1)
    /\ pc' = "done"
    /\ UNCHANGED <<file, min_gap, max_gap, mstg, i, cur, gap_list, pairs,
                   stdout, err>>
    /\ UNCHANGED <<readVars, envVars, callVars, packVars>>

InitGap ==
    /\ IsFile(file)
    /\ min_gap \in GapArgs
    /\ max_gap \in GapArgs
    /\ mstg = <<>>
    /\ pc = "call"
    /\ i = 0
    /\ cur = 0
    /\ gap_list = <<>>
    /\ pairs = <<>>
    /\ stdout = <<>>
    /\ err = "none"
    /\ width = 0
    /\ timespan = <<>>
    /\ minmaxlist = <<>>
    /\ spans = <<>>
    /\ op = "getGapList"
    /\ args = None
    /\ ret = None
    /\ header = None
    /\ cutdata = <<>>
    /\ datasamples = <<>>
    /\ build = 4
    /\ msfile = None
    /\ fpos = 0
    /\ msrecord = <<>>
    /\ oldstarttime = 0

NextGap ==
    \/ GapReadTraces
    \/ GapSkipZeroRate
    \/ GapZeroDivision
    \/ GapRateChanged
    \/ GapOmit
    \/ GapAppend
    \/ GapReturn

SpecGap == InitGap /\ [][NextGap]_vars

-----------------------------------------------------------------------------
(* graph_create_min_max_list.                                              *)

\* sample values of a trace, and what a read outside the sample buffer may
\* give
SampleValues == {-1, 2}
Garbage == {-7, 0, 9}

\* the Python value 0 and calendar times, as elements of a timespan tuple
PyZero == [type |-> "int", second |-> 0, microsecond |-> 0]
DateTime(sec, us) == [type |-> "datetime", second |-> sec, microsecond |-> us]

\* time of the first sample of the downsampled trace
EnvStart == DateTime(10, 0)

\* the window bounds offered: whole seconds before, inside and after the
\* trace, and half a second before its start
WindowTimes ==
    {DateTime(sec, 0) : sec \in {7, 9, 10, 12, 16, 17, 22}} \cup
    {DateTime(9, 500000)}

TimeSpans ==
    {<<>>} \cup
    {<<a, b>> : a \in WindowTimes \cup {PyZero}, b \in WindowTimes \cup {PyZero}}

\* line 470
datetimeToMseedtimestring(dtobj) ==
    dtobj.second * HPTMODULUS + dtobj.microsecond

\* a trace of n samples at 1 Hz as ms_readtraces returns it with dataflag = 1
EnvTrace(id, starttime, data) ==
    [network |-> id.network, station |-> id.station,
     location |-> id.location, channel |-> id.channel,
     starttime |-> starttime,
     endtime |-> EndTime(starttime, One, Len(data)),
     samprate |-> One, samplecnt |-> Len(data), numsamples |-> Len(data),
     datasamples |-> data]

\* a long trace: 1000 samples, every seventh one high
LongData == [k \in 1..1000 |-> IF k % 7 = 0 THEN 2 ELSE -1]

EnvData == UNION {[1..n -> SampleValues] : n \in 1..MaxSamples}

\* the widths asked for: the small ones and ten columns
Widths == (1..MaxWidth) \cup {10}

\* the groups a file may give: no trace, one trace, two traces
EnvGroups ==
    {<<>>} \cup
    {<<EnvTrace(IdA, datetimeToMseedtimestring(EnvStart), d)>> :
         d \in EnvData \cup {LongData}} \cup
    {<<EnvTrace(IdA, datetimeToMseedtimestring(EnvStart), d),
       EnvTrace(IdB, datetimeToMseedtimestring(EnvStart), d)>> :
         d \in [1..1 -> SampleValues]}

SetMin(S) == CHOOSE x \in S : \A y \in S : x <= y
SetMax(S) == CHOOSE x \in S : \A y \in S : x >= y

\* the slice reads outside the buffer of n samples
OutOfBuffer(n, lo, hi) == lo < hi /\ (lo < 0 \/ hi > n)

\* datasamples[lo:hi] of a ctypes pointer: hi - lo elements, those outside
\* the buffer being whatever the memory holds (g)
SliceValues(data, lo, hi, g) ==
    {data[k + 1] : k \in {j \in lo..(hi - 1) : 0 <= j /\ j < Len(data)}} \cup
    (IF OutOfBuffer(Len(data), lo, hi) THEN {g} ELSE {})

\* [min(tempdatlist), max(tempdatlist)]; lo < hi
MinMax(data, lo, hi, g) ==
    <<SetMin(SliceValues(data, lo, hi, g)),
      SetMax(SliceValues(data, lo, hi, g))>>

\* slices of a stepsize rounded up instead of down
NoWindowSpansCeil(chain, w) ==
    LET stepsize == (chain.numsamples + w - 1) \div w
    IN  [c \in 1..w |-> <<(c - 1) * stepsize, c * stepsize>>]

\* lines 591-597: the slices of the whole-trace case
NoWindowSpans(chain, w) ==
    LET stepsize == chain.numsamples \div w
    IN  [c \in 1..w |-> <<(c - 1) * stepsize, c * stepsize>>]

\* line 589
WholeGraph(ts) == ts = <<>> \/ ts = <<PyZero, PyZero>>

\* a check that rejects only windows outside the trace and inverted ones
TimesOutsideOnly(chain, ts) ==
    \/ ts[1] = PyZero
    \/ ts[2] = PyZero
    \/ datetimeToMseedtimestring(ts[1]) > chain.endtime
    \/ datetimeToMseedtimestring(ts[2]) < chain.starttime
    \/ datetimeToMseedtimestring(ts[1]) >= datetimeToMseedtimestring(ts[2])

\* lines 600-603
TimesNotSupported(chain, ts) ==
    \/ ts[1] = PyZero
    \/ ts[2] = PyZero
    \/ datetimeToMseedtimestring(ts[1]) >= chain.starttime
    \/ datetimeToMseedtimestring(ts[2]) <= chain.endtime

\* lines 611-612; chain.endtime # chain.starttime
StepSize(chain, w, ts) ==
    ((chain.numsamples \div w) *
        (datetimeToMseedtimestring(ts[2]) - datetimeToMseedtimestring(ts[1])))
    \div (chain.endtime - chain.starttime)

\* lines 614-618; stepsize # 0
EmptyPixelsAtStart(chain, w, ts) ==
    LET starttime == datetimeToMseedtimestring(ts[1])
    IN  IF starttime < chain.starttime
        THEN RFloor(RDiv(RMul(Rat(chain.starttime - starttime, 1000000),
                              chain.samprate),
                         FromInt(StepSize(chain, w, ts))))
        ELSE 0

\* lines 620-624; stepsize # 0
EmptyPixelsAtEnd(chain, w, ts) ==
    LET endtime == datetimeToMseedtimestring(ts[2])
    IN  IF endtime > chain.endtime
        THEN RFloor(RDiv(RMul(Rat(endtime - chain.endtime, 1000000),
                              chain.samprate),
                         FromInt(StepSize(chain, w, ts))))
        ELSE 0

\* line 629; stepsize # 0
Offset(chain, w, ts) ==
    (chain.starttime - datetimeToMseedtimestring(ts[1])) %
        StepSize(chain, w, ts)

\* lines 634-635: iterations of the loop over the middle pixels
MiddlePixels(chain, w, ts) ==
    LET m == w - EmptyPixelsAtEnd(chain, w, ts) -
             EmptyPixelsAtStart(chain, w, ts) - 2
    IN  IF m > 0 THEN m ELSE 0

\* lines 631-642: the slices of the drawn pixels, in the order they are taken
WindowSpans(chain, w, ts) ==
    LET stepsize == StepSize(chain, w, ts)
        offset == Offset(chain, w, ts)
        m == MiddlePixels(chain, w, ts)
    IN  <<<<0, stepsize - offset>>>> \o
        [c \in 1..m |-> <<c * stepsize - offset, (c + 1) * stepsize - offset>>]
        \o <<<<chain.samplecnt - offset, chain.samplecnt>>>>

\* the columns of non-empty slices
Columns(chain, sp, g) ==
    [c \in 1..Len(sp) |-> MinMax(chain.datasamples, sp[c][1], sp[c][2], g)]

Empties(k) == [c \in 1..k |-> <<>>]

\* an empty pixel is taken from no sample
EmptySpans(k) == [c \in 1..k |-> <<0, 0>>]

SomeOutOfBuffer(chain, sp) ==
    \E c \in 1..Len(sp) : OutOfBuffer(chain.numsamples, sp[c][1], sp[c][2])

\* the first slice that is empty, whose min() raises ValueError; 0 if none
FirstEmpty(sp) ==
    LET S == {c \in 1..Len(sp) : sp[c][1] >= sp[c][2]}
    IN  IF S = {} THEN 0 ELSE SetMin(S)

EnvRaise(e) ==
    /\ pc' = "raised"
    /\ err' = e
    /\ UNCHANGED <<minmaxlist, spans>>

EnvUnchanged ==
    UNCHANGED <<file, min_gap, max_gap, mstg, i, cur, gap_list, pairs, stdout,
                width, timespan, callVars, packVars, readVars>>

\* lines 586, 648-650
EnvMultiTrace ==
    /\ pc = "call"
    /\ numtraces # 1
    /\ EnvRaise("ValueError")
    /\ EnvUnchanged

\* lines 589-597
EnvNoWindow ==
    /\ pc = "call"
    /\ numtraces = 1
    /\ WholeGraph(timespan)
    /\ LET sp == NoWindowSpans(mstg[1], width)
       IN  IF FirstEmpty(sp) # 0
           THEN EnvRaise("ValueError")
           ELSE /\ minmaxlist' = Columns(mstg[1], sp, 0)
                /\ spans' = sp
                /\ pc' = "done"
                /\ err' = err
    /\ EnvUnchanged

\* lines 600-604
EnvTimesNotSupported ==
    /\ pc = "call"
    /\ numtraces = 1
    /\ ~ WholeGraph(timespan)
    /\ TimesNotSupported(mstg[1], timespan)
    /\ EnvRaise("ValueError")
    /\ EnvUnchanged

WindowedCall ==
    /\ pc = "call"
    /\ numtraces = 1
    /\ ~ WholeGraph(timespan)
    /\ ~ TimesNotSupported(mstg[1], timespan)

\* lines 611-622: a trace of one sample has endtime = starttime, and a
\* stepsize of 0 divides the number of empty pixels
EnvZeroDivision ==
    /\ WindowedCall
    /\ \/ mstg[1].endtime = mstg[1].starttime
       \/ /\ mstg[1].endtime # mstg[1].starttime
          /\ StepSize(mstg[1], width, timespan) = 0
    /\ EnvRaise("ZeroDivisionError")
    /\ EnvUnchanged

WindowedRuns ==
    /\ WindowedCall
    /\ mstg[1].endtime # mstg[1].starttime
    /\ StepSize(mstg[1], width, timespan) # 0

\* lines 626-647
EnvWindowed ==
    /\ WindowedRuns
    /\ LET chain == mstg[1]
           sp == WindowSpans(chain, width, timespan)
           es == EmptyPixelsAtStart(chain, width, timespan)
           ee == EmptyPixelsAtEnd(chain, width, timespan)
       IN  IF FirstEmpty(sp) # 0
           THEN EnvRaise("ValueError")
           ELSE \E g \in Garbage :
                    /\ minmaxlist' =
                           Empties(es) \o Columns(chain, sp, g) \o Empties(ee)
                    /\ spans' = EmptySpans(es) \o sp \o EmptySpans(ee)
                    /\ pc' = "done"
                    /\ err' = err
    /\ EnvUnchanged

\* lines 631-641: a slice that reaches outside the sample buffer reads memory
\* the trace does not own; the process may die there
EnvSegfault ==
    /\ WindowedRuns
    /\ LET sp == WindowSpans(mstg[1], width, timespan)
           e == FirstEmpty(sp)
       IN  SomeOutOfBuffer(mstg[1],
                           IF e = 0 THEN sp ELSE SubSeq(sp, 1, e - 1))
    /\ pc' = "crashed"
    /\ UNCHANGED <<minmaxlist, spans, err>>
    /\ EnvUnchanged

InitEnv ==
    /\ file = <<>>
    /\ min_gap = None
    /\ max_gap = None
    /\ mstg \in EnvGroups
    /\ pc = "call"
    /\ i = 0
    /\ cur = 0
    /\ gap_list = <<>>
    /\ pairs = <<>>
    /\ stdout = <<>>
    /\ err = "none"
    /\ width \in Widths
    /\ timespan \in TimeSpans
    /\ minmaxlist = <<>>
    /\ spans = <<>>
    /\ op = "graph_create_min_max_list"
    /\ args = None
    /\ ret = None
    /\ header = None
    /\ cutdata = <<>>
    /\ datasamples = <<>>
    /\ build = 4
    /\ msfile = None
    /\ fpos = 0
    /\ msrecord = <<>>
    /\ oldstarttime = 0

NextEnv ==
    \/ EnvMultiTrace
    \/ EnvNoWindow
    \/ EnvTimesNotSupported
    \/ EnvZeroDivision
    \/ EnvWindowed
    \/ EnvSegfault

SpecEnv == InitEnv /\ [][NextEnv]_vars

-----------------------------------------------------------------------------
(* getMinMaxList.                                                          *)

\* lines 790-791: the width is cut down to the number of samples
ClampedWidth(chain, w) ==
    IF w >= chain.numsamples THEN chain.numsamples ELSE w

\* lines 792-796: the slices; the clamped width is not 0
MinMaxListSpans(chain, w) ==
    LET cw == ClampedWidth(chain, w)
        stepsize == chain.numsamples \div cw
    IN  [c \in 1..cw |-> <<(c - 1) * stepsize, c * stepsize>>]

\* lines 795-800: max of the slice for even x, min for odd x (x = c - 1)
MinMaxListValues(chain, sp) ==
    [c \in 1..Len(sp) |->
        IF (c - 1) % 2 = 1
        THEN SetMin(SliceValues(chain.datasamples, sp[c][1], sp[c][2], 0))
        ELSE SetMax(SliceValues(chain.datasamples, sp[c][1], sp[c][2], 0))]

\* line 788: with no trace the group's trace pointer is NULL
MinMaxListNullPointer ==
    /\ pc = "call"
    /\ numtraces = 0
    /\ EnvRaise("ValueError")
    /\ EnvUnchanged

\* line 792: a trace without samples clamps the width to 0
MinMaxListZeroDivision ==
    /\ pc = "call"
    /\ numtraces >= 1
    /\ ClampedWidth(mstg[1], width) = 0
    /\ EnvRaise("ZeroDivisionError")
    /\ EnvUnchanged

\* lines 787-801: the first trace of the group is downsampled, whatever the
\* number of traces
MinMaxListReturn ==
    /\ pc = "call"
    /\ numtraces >= 1
    /\ ClampedWidth(mstg[1], width) # 0
    /\ spans' = MinMaxListSpans(mstg[1], width)
    /\ minmaxlist' = MinMaxListValues(mstg[1], spans')
    /\ pc' = "done"
    /\ err' = err
    /\ EnvUnchanged

InitMinMaxList ==
    /\ file = <<>>
    /\ min_gap = None
    /\ max_gap = None
    /\ mstg \in EnvGroups \cup
               {<<EnvTrace(IdA, datetimeToMseedtimestring(EnvStart), <<>>)>>}
    /\ pc = "call"
    /\ i = 0
    /\ cur = 0
    /\ gap_list = <<>>
    /\ pairs = <<>>
    /\ stdout = <<>>
    /\ err = "none"
    /\ width \in Widths
    /\ timespan = <<>>
    /\ minmaxlist = <<>>
    /\ spans = <<>>
    /\ op = "getMinMaxList"
    /\ args = None
    /\ ret = None
    /\ header = None
    /\ cutdata = <<>>
    /\ datasamples = <<>>
    /\ build = 4
    /\ msfile = None
    /\ fpos = 0
    /\ msrecord = <<>>
    /\ oldstarttime = 0

NextMinMaxList ==
    \/ MinMaxListNullPointer
    \/ MinMaxListZeroDivision
    \/ MinMaxListReturn

SpecMinMaxList == InitMinMaxList /\ [][NextMinMaxList]_vars

-----------------------------------------------------------------------------
(* isRateTolerable called on its own.                                      *)

\* pairs of sample rates around 100 Hz (100.005 and 100.02 among them) and
\* around 10000 Hz
RatePairs ==
    LET near100 == {Zero, FromInt(50), FromInt(100), <<20001, 200>>,
                    <<5001, 50>>, FromInt(200)}
        near10000 == {Zero, FromInt(9999), FromInt(10000), FromInt(10001),
                      FromInt(10002), FromInt(20000)}
    IN  (near100 \X near100) \cup (near10000 \X near10000)

\* line 484: sr1 / float(sr2) with sr2 = 0
RateZeroDivision ==
    /\ pc = "call"
    /\ op = "isRateTolerable"
    /\ args.sr2 = Zero
    /\ pc' = "raised"
    /\ err' = "ZeroDivisionError"
    /\ ret' = ret
    /\ UNCHANGED <<file, min_gap, max_gap, mstg, i, cur, gap_list, pairs,
                   stdout, readVars, envVars, op, args, packVars>>

\* lines 480-484
RateReturn ==
    /\ pc = "call"
    /\ op = "isRateTolerable"
    /\ args.sr2 # Zero
    /\ ret' = isRateTolerable(args.sr1, args.sr2)
    /\ pc' = "done"
    /\ err' = err
    /\ UNCHANGED <<file, min_gap, max_gap, mstg, i, cur, gap_list, pairs,
                   stdout, readVars, envVars, op, args, packVars>>

InitRate ==
    /\ file = <<>>
    /\ min_gap = None
    /\ max_gap = None
    /\ mstg = <<>>
    /\ pc = "call"
    /\ i = 0
    /\ cur = 0
    /\ gap_list = <<>>
    /\ pairs = <<>>
    /\ stdout = <<>>
    /\ err = "none"
    /\ width = 0
    /\ timespan = <<>>
    /\ minmaxlist = <<>>
    /\ spans = <<>>
    /\ op = "isRateTolerable"
    /\ \E p \in RatePairs : args = [sr1 |-> p[1], sr2 |-> p[2]]
    /\ ret = None
    /\ header = None
    /\ cutdata = <<>>
    /\ datasamples = <<>>
    /\ build = 4
    /\ msfile = None
    /\ fpos = 0
    /\ msrecord = <<>>
    /\ oldstarttime = 0

NextRate ==
    \/ RateZeroDivision
    \/ RateReturn

SpecRate == InitRate /\ [][NextRate]_vars

-----------------------------------------------------------------------------
(* write_ms, cut_ms and reading the written file back.                     *)

\* sizeof(c_void_p): the 32 bit and the 64 bit library of lines 35-41
Builds == {4, 8}

\* ms_samplesize of sample type 'i', in bytes
SampleSize == 4

\* samples of the trace handed to write_ms / cut_ms
MaxPacked == 4

\* cut_ms: microseconds from the start of the file to the start of the cut
MaxStime == 2

\* the data lists: up to MaxPacked samples, each negative, 0 or positive
PackData == UNION {[1..n -> {-1, 0, 2}] : n \in 1..MaxPacked}

\* 1 Hz, 100 Hz and one sample per microsecond
PackRates == {One, FromInt(100), FromInt(1000000)}

\* a header dictionary (mst2dict) of a trace of n samples
Header(id, starttime, samprate, n) ==
    [network |-> id.network, station |-> id.station,
     location |-> id.location, channel |-> id.channel,
     starttime |-> starttime, endtime |-> EndTime(starttime, samprate, n),
     samprate |-> samprate, samplecnt |-> n, numsamples |-> n]

\* line 319; samprate # 0
samprate_in_microsecs(h) == RDiv(h.samprate, FromInt(1000000))

\* lines 321-325; samprate # 0
CutHeader(h, stime, cutsamplecount) ==
    LET starttime == h.starttime + stime
    IN  [h EXCEPT !.starttime = starttime,
                  !.endtime =
                      RFloor(RAdd(FromInt(starttime),
                                  RDiv(FromInt(cutsamplecount),
                                       samprate_in_microsecs(h)))),
                  !.numsamples = cutsamplecount,
                  !.samplecnt = cutsamplecount]

\* line 327: data[int(stime/samprate_in_microsecs):cutsamplecount+1]
CutSlice(d, h, stime, cutsamplecount) ==
    LET lo == RFloor(RDiv(FromInt(stime), samprate_in_microsecs(h)))
        hi == IF cutsamplecount + 1 < Len(d) THEN cutsamplecount + 1
              ELSE Len(d)
    IN  IF lo < hi THEN SubSeq(d, lo + 1, hi) ELSE <<>>

\* the flush argument: cut_ms leaves write_ms its default, -1
Flush == IF op = "write_ms" THEN args.flush ELSE TRUE

\* the data list write_ms is given
WriteData == IF op = "write_ms" THEN args.data ELSE cutdata

AtWriteMs == (op = "write_ms" /\ pc = "call") \/ pc = "write_ms"

\* lines 252-258: sample k is stored as a c_void_p, sizeof(c_void_p) bytes
\* wide, in a buffer of SampleSize * n bytes; the 32 bit words the buffer
\* holds afterwards (the low word of a c_void_p comes first)
PopulatedWords(d, n, b) ==
    IF b = SampleSize
    THEN [k \in 1..n |-> d[k]]
    ELSE [k \in 1..n |->
              IF k % 2 = 1 THEN d[(k + 1) \div 2]
              ELSE IF d[k \div 2] < 0 THEN -1 ELSE 0]

\* lines 257-258: a store past the end of the buffer is reached before the
\* data list runs out
StoresPastBuffer(d, n, b) ==
    /\ b > SampleSize
    /\ n > n \div 2
    /\ Len(d) > n \div 2

\* lines 249-251: C.resize refuses a size below sizeof(c_void_p)
PopulateResizeError ==
    /\ AtWriteMs
    /\ SampleSize * header.numsamples < build
    /\ pc' = "raised"
    /\ err' = "ValueError"
    /\ UNCHANGED <<file, min_gap, max_gap, mstg, i, cur, gap_list, pairs,
                   stdout, readVars, envVars, callVars, packVars>>

\* line 258: data[i] with i = len(data)
PopulateIndexError ==
    /\ AtWriteMs
    /\ SampleSize * header.numsamples >= build
    /\ header.numsamples > Len(WriteData)
    /\ pc' = "raised"
    /\ err' = "IndexError"
    /\ UNCHANGED <<file, min_gap, max_gap, mstg, i, cur, gap_list, pairs,
                   stdout, readVars, envVars, callVars, packVars>>

\* lines 257-258: the stores past the end of the buffer overwrite memory the
\* buffer does not own; the process may die there
PopulateSegfault ==
    /\ AtWriteMs
    /\ SampleSize * header.numsamples >= build
    /\ StoresPastBuffer(WriteData, header.numsamples, build)
    /\ pc' = "crashed"
    /\ UNCHANGED <<file, min_gap, max_gap, mstg, i, cur, gap_list, pairs,
                   stdout, err, readVars, envVars, callVars, packVars>>

\* lines 233-259 and 265: the MSTrace is populated and the output file is
\* opened for writing
Populate ==
    /\ AtWriteMs
    /\ SampleSize * header.numsamples >= build
    /\ header.numsamples <= Len(WriteData)
    /\ datasamples' = PopulatedWords(WriteData, header.numsamples, build)
    /\ file' = <<>>
    /\ pc' = "packing"
    /\ UNCHANGED <<min_gap, max_gap, mstg, i, cur, gap_list, pairs, stdout,
                   err, readVars, envVars, callVars, header, cutdata, build>>

\* a delta encoding: the first sample and the differences of the others
Encode(ws) ==
    [k \in 1..Len(ws) |-> IF k = 1 THEN ws[1] ELSE ws[k] - ws[k - 1]]

RECURSIVE PrefixSum(_, _)
PrefixSum(p, k) == IF k = 0 THEN 0 ELSE PrefixSum(p, k - 1) + p[k]

Decode(p) == [k \in 1..Len(p) |-> PrefixSum(p, k)]

\* the record mst_pack makes of the samples ws, `done` samples of the trace
\* having been packed before
PackedRecord(h, done, ws) ==
    [network |-> h.network, station |-> h.station, location |-> h.location,
     channel |-> h.channel,
     starttime |-> h.starttime +
         RFloor(RAdd(RDiv(FromInt(done * HPTMODULUS), h.samprate), <<1, 2>>)),
     samprate |-> h.samprate, samplecnt |-> Len(ws), payload |-> Encode(ws)]

\* a handler that starts the file anew at every record
record_handlerOverwrite(f, record) == <<record>>

\* lines 269-270: mseedfile.write(record[0:reclen])
record_handler(f, record) == Append(f, record)

PackUnchanged ==
    UNCHANGED <<min_gap, max_gap, mstg, i, cur, gap_list, pairs, stdout, err,
                readVars, envVars, callVars, header, cutdata, build>>

\* line 275: mst_pack fills a record and hands it to the handler
PackRecord ==
    /\ pc = "packing"
    /\ Len(datasamples) >= RecSamples
    /\ file' = record_handler(file,
                   PackedRecord(header, header.numsamples - Len(datasamples),
                                SubSeq(datasamples, 1, RecSamples)))
    /\ datasamples' = SubSeq(datasamples, RecSamples + 1, Len(datasamples))
    /\ pc' = pc
    /\ PackUnchanged

\* line 275: with flush not 0 the remaining samples go into a short record
PackFlush ==
    /\ pc = "packing"
    /\ Len(datasamples) > 0
    /\ Len(datasamples) < RecSamples
    /\ Flush
    /\ file' = record_handler(file,
                   PackedRecord(header, header.numsamples - Len(datasamples),
                                datasamples))
    /\ datasamples' = <<>>
    /\ pc' = pc
    /\ PackUnchanged

\* lines 275-277: mst_pack returns and the file is closed
PackEnd ==
    /\ pc = "packing"
    /\ \/ Len(datasamples) = 0
       \/ Len(datasamples) < RecSamples /\ ~ Flush
    /\ pc' = "written"
    /\ UNCHANGED <<file, datasamples>>
    /\ PackUnchanged

\* line 322: cutsamplecount / 0.0, after line 321 has moved the start time
CutZeroDivision ==
    /\ op = "cut_ms"
    /\ pc = "call"
    /\ header.samprate = Zero
    /\ header' = [header EXCEPT !.starttime = header.starttime + args.stime]
    /\ pc' = "raised"
    /\ err' = "ZeroDivisionError"
    /\ UNCHANGED <<file, min_gap, max_gap, mstg, i, cur, gap_list, pairs,
                   stdout, readVars, envVars, callVars, cutdata, datasamples, build>>

\* lines 319-329: the header is rewritten, the data cut, write_ms called
CutMs ==
    /\ op = "cut_ms"
    /\ pc = "call"
    /\ header.samprate # Zero
    /\ header' = CutHeader(header, args.stime, args.cutsamplecount)
    /\ cutdata' = CutSlice(args.data, header, args.stime, args.cutsamplecount)
    /\ pc' = "write_ms"
    /\ UNCHANGED <<file, min_gap, max_gap, mstg, i, cur, gap_list, pairs,
                   stdout, err, readVars, envVars, callVars, datasamples, build>>

\* a Python int, as one of the values read from a ctypes pointer to c_void_p
PyInt(v) == <<"int", 0, v>>

\* the value of a c_void_p whose low and high 32 bit words are lo and hi:
\* None for a NULL pointer, otherwise the unsigned address, which is an int
\* below 2^31 only if hi = 0 and lo > 0
VoidPValue(lo, hi) ==
    IF lo = 0 /\ hi = 0 THEN <<"None", 0, 0>>
    ELSE IF hi = 0 /\ lo > 0 THEN PyInt(lo)
    ELSE <<"long", hi, lo>>

\* line 171: datasamples[0:numsamples] of a buffer of numsamples 32 bit
\* words, read as c_void_p elements; a word outside the buffer is whatever
\* the memory holds (g)
ReadSamples(ws, b, g) ==
    LET word(j) == IF j <= Len(ws) THEN ws[j] ELSE g
    IN  [k \in 1..Len(ws) |->
            IF b = SampleSize THEN VoidPValue(ws[k], 0)
            ELSE VoidPValue(word(2 * k - 1), word(2 * k))]

\* the samples of all records of a file, in file order
RECURSIVE FileWords(_)
FileWords(f) ==
    IF f = <<>> THEN <<>>
    ELSE Decode(Head(f).payload) \o FileWords(Tail(f))

\* lines 170-173: data.extend over the traces of the group, ws being the
\* samples of those traces one after the other
RECURSIVE ReadData(_, _, _, _)
ReadData(group, ws, b, g) ==
    IF group = <<>> THEN <<>>
    ELSE LET n == Head(group).samplecnt
         IN  ReadSamples(SubSeq(ws, 1, n), b, g) \o
             ReadData(Tail(group), SubSeq(ws, n + 1, Len(ws)), b, g)

\* lines 116-133
mst2dict(t) ==
    [network |-> t.network, station |-> t.station, location |-> t.location,
     channel |-> t.channel, starttime |-> t.starttime, endtime |-> t.endtime,
     samprate |-> t.samprate, samplecnt |-> t.samplecnt,
     numsamples |-> t.samplecnt]

ReadUnchanged ==
    UNCHANGED <<file, min_gap, max_gap, i, cur, gap_list, pairs, stdout,
                readVars, envVars, op, args, packVars>>

\* line 175: header[0] of a file without a record
ReadIndexError ==
    /\ pc = "written"
    /\ mstg' = readTraces(file)
    /\ Len(mstg') = 0
    /\ pc' = "raised"
    /\ err' = "IndexError"
    /\ ret' = ret
    /\ ReadUnchanged

\* lines 156-175: read_ms_using_traces on the file just written
ReadBack ==
    /\ pc = "written"
    /\ mstg' = readTraces(file)
    /\ Len(mstg') > 0
    /\ \E g \in Garbage :
           ret' = [header |-> mst2dict(mstg'[1]),
                   data |-> ReadData(mstg', FileWords(file), build, g),
                   numtraces |-> Len(mstg')]
    /\ pc' = "done"
    /\ err' = err
    /\ ReadUnchanged

\* line 171: with c_void_p wider than a sample the slice reads past the end
\* of the sample buffer; the process may die there
ReadSegfault ==
    /\ pc = "written"
    /\ build > SampleSize
    /\ mstg' = readTraces(file)
    /\ Len(mstg') > 0
    /\ pc' = "crashed"
    /\ UNCHANGED <<err, ret>>
    /\ ReadUnchanged

InitWrite ==
    /\ file = <<>>
    /\ min_gap = None
    /\ max_gap = None
    /\ mstg = <<>>
    /\ pc = "call"
    /\ i = 0
    /\ cur = 0
    /\ gap_list = <<>>
    /\ pairs = <<>>
    /\ stdout = <<>>
    /\ err = "none"
    /\ width = 0
    /\ timespan = <<>>
    /\ minmaxlist = <<>>
    /\ spans = <<>>
    /\ \/ /\ op = "write_ms"
          /\ args \in [data : PackData, flush : BOOLEAN]
          /\ \E r \in PackRates : header = Header(IdA, T0, r, Len(args.data))
       \/ /\ op = "cut_ms"
          /\ args \in [data : PackData, stime : 0..MaxStime,
                      cutsamplecount : 0..(MaxPacked + 1)]
          /\ \E r \in PackRates \cup {Zero} :
                 header = Header(IdA, T0, r, Len(args.data))
    /\ ret = None
    /\ cutdata = <<>>
    /\ datasamples = <<>>
    /\ build \in Builds
    /\ msfile = None
    /\ fpos = 0
    /\ msrecord = <<>>
    /\ oldstarttime = 0

NextWrite ==
    \/ CutZeroDivision
    \/ CutMs
    \/ PopulateResizeError
    \/ PopulateIndexError
    \/ PopulateSegfault
    \/ Populate
    \/ PackRecord
    \/ PackFlush
    \/ PackEnd
    \/ ReadIndexError
    \/ ReadBack
    \/ ReadSegfault

SpecWrite == InitWrite /\ [][NextWrite]_vars

-----------------------------------------------------------------------------
(* Reading record by record (read_MSRec and the methods built on it): a    *)
(* session of calls on one file.                                           *)

\* a conversion that divides the integer timestring by an integer HPTMODULUS
mseedtimestringToDatetimeTruncated(timestring) ==
    utcfromtimestamp(FromInt(RFloor(timestring) \div HPTMODULUS))

\* line 478; the timestring is a long or a float
mseedtimestringToDatetime(timestring) ==
    utcfromtimestamp(RDiv(timestring, FromInt(HPTMODULUS)))

\* the file is empty, or has a first record of identifier IdA at T0 and up
\* to MaxRecords - 1 records after it, each contiguous with the record
\* before it, two seconds late or overlapping it; state-of-health records
\* (rate 0) included
IsReadFile(f) ==
    \/ f = <<>>
    \/ \E r \in {Zero, FromInt(100)}, n \in 0..(MaxRecords - 1) :
           \E rest \in [1..n -> Ids \X {10000, 2000000, -20000}
                                     \X {Zero, FromInt(100)}] :
               f = BuildFile(<<Record(IdA, T0, r)>>, rest, 1)

\* a method is called when no call is running: it starts with its own
\* locals and output (the counter of read_MSRec calls, msrecord,
\* oldstarttime, what is printed) and leaves the file alone
Call(o) ==
    /\ pc \in {"call", "done", "raised"}
    /\ op' = o
    /\ args' = None
    /\ i' = 0
    /\ msrecord' = <<>>
    /\ oldstarttime' = 0
    /\ stdout' = <<>>
    /\ UNCHANGED <<file, min_gap, max_gap, cur, gap_list, pairs, envVars,
                   packVars>>

\* clibmseed.ms_readmsr keeps the file it has open and its position in it
\* from one call to the next, until it is reset (lines 393-401): a call on
\* the file that is open reads the record after the one read last, a call on
\* another file starts at its first record
ReadPos == IF msfile = "file" THEN fpos ELSE 0

\* lines 222-231: read_MSRec(file) returns record ReadPos + 1 with retcode 0
\* and moves on, or a NULL msr and a non-zero retcode at the end of the file
read_MSRec ==
    /\ msfile' = "file"
    /\ fpos' = IF ReadPos < Len(file) THEN ReadPos + 1 ELSE ReadPos

\* lines 149-154
compareHeaders(header1, list) == Len(list) = 0

\* lines 202-231, called by itself
CallReadMSRec ==
    /\ Call("read_MSRec")
    /\ read_MSRec
    /\ ret' = IF ReadPos < Len(file) THEN <<file[ReadPos + 1], 0>>
                                      ELSE <<None, 1>>
    /\ pc' = "done"
    /\ err' = "none"
    /\ mstg' = <<>>

\* lines 419-427; msr[0].contents of a NULL msr raises ValueError
CallGetFirstRecordHeaderInfo ==
    /\ Call("getFirstRecordHeaderInfo")
    /\ read_MSRec
    /\ IF ReadPos < Len(file)
       THEN LET chain == file[ReadPos + 1]
            IN  /\ ret' = [location |-> chain.location,
                           network |-> chain.network,
                           station |-> chain.station,
                           channel |-> chain.channel]
                /\ pc' = "done"
                /\ err' = "none"
       ELSE /\ ret' = None
            /\ pc' = "raised"
            /\ err' = "ValueError"
    /\ mstg' = <<>>

\* lines 440-462: the start time is taken from the record read_MSRec gives,
\* the reader is reset, the last record of the file is copied to 'temp' and
\* read from there, which leaves 'temp' open behind its only record; a
\* sample rate of 0.0 in the last record raises ZeroDivisionError
CallGetStartAndEndTime ==
    /\ Call("getStartAndEndTime")
    /\ IF ReadPos < Len(file)
       THEN LET starttime == file[ReadPos + 1].starttime
                chain == file[Len(file)]
            IN  /\ msfile' = "temp"
                /\ fpos' = 1
                /\ IF chain.samprate = Zero
                   THEN /\ ret' = None
                        /\ pc' = "raised"
                        /\ err' = "ZeroDivisionError"
                   ELSE LET endtime ==
                                RAdd(FromInt(chain.starttime),
                                     RMul(RDiv(FromInt(chain.samplecnt - 1),
                                               chain.samprate),
                                          FromInt(HPTMODULUS)))
                        IN  /\ ret' =
                                   <<mseedtimestringToDatetime(
                                         FromInt(starttime)),
                                     mseedtimestringToDatetime(endtime)>>
                            /\ pc' = "done"
                            /\ err' = "none"
       ELSE /\ read_MSRec
            /\ ret' = None
            /\ pc' = "raised"
            /\ err' = "ValueError"
    /\ mstg' = <<>>

\* lines 380-391: ms_readtraces takes the records from the reader, which is
\* reset afterwards
CallReadTraces ==
    /\ Call("readTraces")
    /\ mstg' = readTraces(SubSeq(file, ReadPos + 1, Len(file)))
    /\ msfile' = None
    /\ fpos' = 0
    /\ ret' = None
    /\ pc' = "done"
    /\ err' = "none"

\* lines 184-185 and 337-340: the loops start with retcode = 0
BeginLoop ==
    /\ \E o \in {"readMSusingRecords", "printrecordinfo"} : Call(o)
    /\ pc' = "reading"
    /\ mstg' = <<>>
    /\ ret' = None
    /\ err' = "none"
    /\ UNCHANGED <<msfile, fpos>>

\* lines 186-200: one round of the loop of readMSusingRecords; the header is
\* the dictionary of the record's fields (msr2dict)
RecordsRead ==
    /\ pc = "reading"
    /\ op = "readMSusingRecords"
    /\ read_MSRec
    /\ i' = i + 1
    /\ IF ReadPos < Len(file)
       THEN LET header1 == file[ReadPos + 1]
            IN  /\ IF compareHeaders(header1, msrecord)
                   THEN /\ stdout' = Append(stdout, "Same Trace")
                        /\ msrecord' = msrecord
                   ELSE /\ msrecord' = Append(msrecord, <<header1, 0>>)
                        /\ stdout' = stdout
                /\ UNCHANGED <<pc, ret>>
       ELSE /\ pc' = "done"
            /\ ret' = msrecord
            /\ UNCHANGED <<stdout, msrecord>>
    /\ UNCHANGED <<file, min_gap, max_gap, mstg, cur, gap_list, pairs, err,
                   envVars, op, args, packVars, oldstarttime>>

\* lines 341-357: one round of the loop of printrecordinfo; 1/samprate with
\* a sample rate of 0.0 raises ZeroDivisionError
PrintRead ==
    /\ pc = "reading"
    /\ op = "printrecordinfo"
    /\ read_MSRec
    /\ i' = i + 1
    /\ IF ReadPos < Len(file)
       THEN LET msr == file[ReadPos + 1]
                word == IF oldstarttime = 0 THEN <<>>
                        ELSE IF msr.starttime - oldstarttime = 0
                             THEN <<"NO GAPS/OVERLAPS">>
                        ELSE IF msr.starttime - oldstarttime < 0
                             THEN <<"OVERLAP">>
                        ELSE <<"GAP">>
            IN  /\ stdout' = stdout \o word
                /\ IF msr.samprate = Zero
                   THEN /\ pc' = "raised"
                        /\ err' = "ZeroDivisionError"
                        /\ oldstarttime' = oldstarttime
                   ELSE /\ oldstarttime' =
                               RFloor(RAdd(FromInt(msr.starttime),
                                           RMul(RMul(FromInt(msr.samplecnt),
                                                     RDiv(One, msr.samprate)),
                                                FromInt(1000000))))
                        /\ UNCHANGED <<pc, err>>
       ELSE /\ pc' = "done"
            /\ UNCHANGED <<stdout, err, oldstarttime>>
    /\ UNCHANGED <<file, min_gap, max_gap, mstg, cur, gap_list, pairs,
                   envVars, callVars, packVars, msrecord>>

InitRead ==
    /\ IsReadFile(file)
    /\ min_gap = None
    /\ max_gap = None
    /\ mstg = <<>>
    /\ pc = "call"
    /\ i = 0
    /\ cur = 0
    /\ gap_list = <<>>
    /\ pairs = <<>>
    /\ stdout = <<>>
    /\ err = "none"
    /\ width = 0
    /\ timespan = <<>>
    /\ minmaxlist = <<>>
    /\ spans = <<>>
    /\ op = None
    /\ args = None
    /\ ret = None
    /\ header = None
    /\ cutdata = <<>>
    /\ datasamples = <<>>
    /\ build = 4
    /\ msfile = None
    /\ fpos = 0
    /\ msrecord = <<>>
    /\ oldstarttime = 0

NextRead ==
    \/ CallReadMSRec
    \/ CallGetFirstRecordHeaderInfo
    \/ CallGetStartAndEndTime
    \/ CallReadTraces
    \/ BeginLoop
    \/ RecordsRead
    \/ PrintRead

SpecRead == InitRead /\ [][NextRead]_vars

-----------------------------------------------------------------------------
(* The time conversions.                                                   *)

\* the calendar times converted: whole seconds since the epoch and
\* microseconds
TimeInputs ==
    {DateTime(sec, us) :
        sec \in {0, 1, 10, 2000},
        us \in {0, 1, 2, 123456, 499999, 500000, 500001, 999998, 999999}}

\* line 470
CallDatetimeToMseedtimestring ==
    /\ pc = "call"
    /\ op = "datetimeToMseedtimestring"
    /\ ret' = datetimeToMseedtimestring(args.dtobj)
    /\ pc' = "done"
    /\ UNCHANGED <<file, min_gap, max_gap, mstg, i, cur, gap_list, pairs,
                   stdout, err, envVars, op, args, packVars, readVars>>

\* line 478, called with the timestring the first conversion returned
CallMseedtimestringToDatetime ==
    /\ pc = "done"
    /\ op = "datetimeToMseedtimestring"
    /\ op' = "mseedtimestringToDatetime"
    /\ args' = [dtobj |-> args.dtobj, timestring |-> ret]
    /\ ret' = mseedtimestringToDatetime(FromInt(ret))
    /\ UNCHANGED <<file, min_gap, max_gap, mstg, pc, i, cur, gap_list, pairs,
                   stdout, err, envVars, packVars, readVars>>

InitTime ==
    /\ file = <<>>
    /\ min_gap = None
    /\ max_gap = None
    /\ mstg = <<>>
    /\ pc = "call"
    /\ i = 0
    /\ cur = 0
    /\ gap_list = <<>>
    /\ pairs = <<>>
    /\ stdout = <<>>
    /\ err = "none"
    /\ width = 0
    /\ timespan = <<>>
    /\ minmaxlist = <<>>
    /\ spans = <<>>
    /\ op = "datetimeToMseedtimestring"
    /\ \E dtobj \in TimeInputs : args = [dtobj |-> dtobj]
    /\ ret = None
    /\ header = None
    /\ cutdata = <<>>
    /\ datasamples = <<>>
    /\ build = 4
    /\ msfile = None
    /\ fpos = 0
    /\ msrecord = <<>>
    /\ oldstarttime = 0

NextTime ==
    \/ CallDatetimeToMseedtimestring
    \/ CallMseedtimestringToDatetime

SpecTime == InitTime /\ [][NextTime]_vars

-----------------------------------------------------------------------------
(* obspy.signal.rotate: rotate_ZNE_LQT and rotate_LQT_ZNE.                 *)

\* math.cos and math.sin of d * 2 * pi / 360 for an angle of d degrees that
\* is a multiple of 90
cos(d) ==
    LET quarter == (d \div 90) % 4
    IN  IF quarter = 0 THEN 1 ELSE IF quarter = 2 THEN -1 ELSE 0

sin(d) ==
    LET quarter == (d \div 90) % 4
    IN  IF quarter = 1 THEN 1 ELSE IF quarter = 3 THEN -1 ELSE 0

\* lines 71-76 and 93-98: the checks both functions start with
RotateError(a, b, c, ba, inc) ==
    IF Len(a) # Len(b) \/ Len(a) # Len(c) THEN "TypeError"
    ELSE IF ba < 0 \/ ba > 360 THEN "ValueError"
    ELSE IF inc < 0 \/ inc > 360 THEN "ValueError"
    ELSE "none"

\* lines 77-82, on arrays of equal length
rotate_ZNE_LQT(z, n, e, ba, inc) ==
    <<[k \in 1..Len(z) |-> z[k] * cos(inc) - n[k] * sin(inc) * cos(ba)
                               - e[k] * sin(inc) * sin(ba)],
      [k \in 1..Len(z) |-> (-z[k]) * sin(inc) - n[k] * cos(inc) * cos(ba)
                               - e[k] * cos(inc) * sin(ba)],
      [k \in 1..Len(z) |-> (-n[k]) * sin(ba) + e[k] * cos(ba)]>>

\* a back rotation that turns the wrong way about the T axis
rotate_LQT_ZNEWrongSense(l, q, t, ba, inc) ==
    <<[k \in 1..Len(l) |-> l[k] * cos(inc) + q[k] * sin(inc)],
      [k \in 1..Len(l) |-> l[k] * sin(inc) * cos(ba)
                               - q[k] * cos(inc) * cos(ba) - t[k] * sin(ba)],
      [k \in 1..Len(l) |-> l[k] * sin(inc) * sin(ba)
                               - q[k] * cos(inc) * sin(ba) + t[k] * cos(ba)]>>

\* lines 99-104, on arrays of equal length
rotate_LQT_ZNE(l, q, t, ba, inc) ==
    <<[k \in 1..Len(l) |-> l[k] * cos(inc) - q[k] * sin(inc)],
      [k \in 1..Len(l) |-> (-l[k]) * sin(inc) * cos(ba)
                               - q[k] * cos(inc) * cos(ba) - t[k] * sin(ba)],
      [k \in 1..Len(l) |-> (-l[k]) * sin(inc) * sin(ba)
                               - q[k] * cos(inc) * sin(ba) + t[k] * cos(ba)]>>

\* the function called first, on the components args.first
Rotate ==
    /\ pc = "call"
    /\ op \in {"rotate_ZNE_LQT", "rotate_LQT_ZNE"}
    /\ LET a == args.first[1]
           b == args.first[2]
           c == args.first[3]
           e == RotateError(a, b, c, args.ba, args.inc)
       IN  IF e # "none"
           THEN /\ pc' = "raised"
                /\ err' = e
                /\ ret' = ret
           ELSE /\ pc' = "done"
                /\ err' = err
                /\ ret' = IF op = "rotate_ZNE_LQT"
                          THEN rotate_ZNE_LQT(a, b, c, args.ba, args.inc)
                          ELSE rotate_LQT_ZNE(a, b, c, args.ba, args.inc)
    /\ UNCHANGED <<file, min_gap, max_gap, mstg, i, cur, gap_list, pairs,
                   stdout, envVars, op, args, packVars, readVars>>

\* the other function, called on what the first returned with the same
\* angles
RotateBack ==
    /\ pc = "done"
    /\ op \in {"rotate_ZNE_LQT", "rotate_LQT_ZNE"}
    /\ LET a == ret[1]
           b == ret[2]
           c == ret[3]
           e == RotateError(a, b, c, args.ba, args.inc)
       IN  IF e # "none"
           THEN /\ pc' = "raised"
                /\ err' = e
                /\ ret' = ret
           ELSE /\ pc' = "back"
                /\ err' = err
                /\ ret' = IF op = "rotate_ZNE_LQT"
                          THEN rotate_LQT_ZNE(a, b, c, args.ba, args.inc)
                          ELSE rotate_ZNE_LQT(a, b, c, args.ba, args.inc)
    /\ UNCHANGED <<file, min_gap, max_gap, mstg, i, cur, gap_list, pairs,
                   stdout, envVars, op, args, packVars, readVars>>

\* components of up to MaxComponent samples, of equal and of unequal length,
\* and angles in degrees inside and outside [0, 360]
InitRotate ==
    /\ file = <<>>
    /\ min_gap = None
    /\ max_gap = None
    /\ mstg = <<>>
    /\ pc = "call"
    /\ i = 0
    /\ cur = 0
    /\ gap_list = <<>>
    /\ pairs = <<>>
    /\ stdout = <<>>
    /\ err = "none"
    /\ width = 0
    /\ timespan = <<>>
    /\ minmaxlist = <<>>
    /\ spans = <<>>
    /\ op \in {"rotate_ZNE_LQT", "rotate_LQT_ZNE"}
    /\ LET Components == UNION {[1..n -> {-1, 2}] : n \in 1..MaxComponent}
           Angles == {-90, -1, 0, 90, 180, 270, 360, 361, 450}
       IN  \E a \in Components, b \in Components, c \in Components,
              ba \in Angles, inc \in Angles :
               args = [first |-> <<a, b, c>>, ba |-> ba, inc |-> inc]
    /\ ret = None
    /\ header = None
    /\ cutdata = <<>>
    /\ datasamples = <<>>
    /\ build = 4
    /\ msfile = None
    /\ fpos = 0
    /\ msrecord = <<>>
    /\ oldstarttime = 0

NextRotate ==
    \/ Rotate
    \/ RotateBack

SpecRotate == InitRotate /\ [][NextRotate]_vars

-----------------------------------------------------------------------------
(* Properties of getGapList, checked under SpecGap.                        *)

Returned == pc = "done"
Ended == pc \in {"done", "raised"}

\* the pair the k-th descriptor was computed from
CurOf(k) == mstg[pairs[k]]
NextOf(k) == mstg[pairs[k] + 1]

\* microseconds since the epoch of a calendar time
MicrosOf(t) == t.second * 1000000 + t.microsecond

\* C1: a descriptor of a pair with next.starttime >= cur.endtime carries
\* cur's network, station, location and channel, the calendar times of
\* cur.endtime and next.starttime, and a gap of exactly
\* (next.starttime - cur.endtime) / 1000000 seconds.
C1_GapDescriptorFields ==
    \A k \in 1..Len(gap_list) :
        LET c == CurOf(k)
            n == NextOf(k)
            d == gap_list[k]
        IN  n.starttime >= c.endtime =>
                /\ d[1] = c.network
                /\ d[2] = c.station
                /\ d[3] = c.location
                /\ d[4] = c.channel
                /\ MicrosOf(d[5]) = c.endtime
                /\ MicrosOf(d[6]) = n.starttime
                /\ d[7][1] * 1000000 = (n.starttime - c.endtime) * d[7][2]

\* C1 witness: a call returned a descriptor whose gap has a sub-second part
C1_Witness ==
    /\ Returned
    /\ \E k \in 1..Len(gap_list) :
           /\ NextOf(k).starttime > CurOf(k).endtime
           /\ gap_list[k][7][2] # 1

\* two traces of one identifier at 100 Hz, the second starting two seconds
\* after the first ends, listed without filters
TwoSecondScenario ==
    /\ numtraces = 2
    /\ min_gap = None
    /\ max_gap = None
    /\ mstg[1].samprate = <<100, 1>>
    /\ mstg[2].samprate = <<100, 1>>
    /\ mstg[1].channel = mstg[2].channel
    /\ mstg[2].starttime - mstg[1].endtime = 2000000

\* C2: the sample count of a descriptor is |gap| * cur.samprate - 1 for a
\* gap > 0 and |gap| * cur.samprate + 1 for a gap <= 0; the two second
\* scenario returns one descriptor with gap 2 and 199 samples.
C2_MissingSampleCount ==
    /\ \A k \in 1..Len(gap_list) :
           LET g == gap_list[k][7]
               s == gap_list[k][8]
               r == CurOf(k).samprate
               adj == IF g[1] > 0 THEN -1 ELSE 1
           IN  s[1] * g[2] * r[2] =
                   (Abs(g[1]) * r[1] + adj * g[2] * r[2]) * s[2]
    /\ (Ended /\ TwoSecondScenario) =>
           /\ Returned
           /\ Len(gap_list) = 1
           /\ gap_list[1][7] = <<2, 1>>
           /\ gap_list[1][8] = <<199, 1>>

\* C2 witness: the two second scenario has returned
C2_Witness == Returned /\ TwoSecondScenario /\ Len(gap_list) = 1

\* the largest overlap reported against trace n, in microseconds times the
\* denominator of its rate: duration plus one sample period (none at rate 0)
OverlapBound(n) ==
    IF n.samprate[1] = 0
    THEN <<n.endtime - n.starttime, 1>>
    ELSE <<(n.endtime - n.starttime) * n.samprate[1] +
               1000000 * n.samprate[2],
           n.samprate[1]>>

\* C3: for a pair with cur.samprate # 0 that overlaps, the reported gap is
\* max(raw gap, -max_overlap), and a next trace of rate 0 is handled with
\* delta = 0 instead of failing.
C3_OverlapClamp ==
    /\ \A k \in 1..Len(gap_list) :
           LET c == CurOf(k)
               n == NextOf(k)
               raw == n.starttime - c.endtime
               b == OverlapBound(n)
               g == gap_list[k][7]
           IN  raw < 0 =>
                   IF (-raw) * b[2] > b[1]
                   THEN g[1] * 1000000 * b[2] = (-b[1]) * g[2]
                   ELSE g[1] * 1000000 = raw * g[2]
    /\ ~ (/\ pc = "raised"
          /\ cur >= 1
          /\ cur < numtraces
          /\ mstg[cur].samprate # Zero
          /\ mstg[cur + 1].samprate = Zero
          /\ mstg[cur + 1].starttime < mstg[cur].endtime)

\* C4: with min_gap supplied (0 included) no descriptor has gap < min_gap,
\* with max_gap supplied (0 included) no descriptor has gap > max_gap.
C4_FilterWhenSupplied ==
    \A k \in 1..Len(gap_list) :
        /\ min_gap # None => ~ RLess(gap_list[k][7], min_gap)
        /\ max_gap # None => ~ RLess(max_gap, gap_list[k][7])

\* rates a and b (both non-zero) differ by a relative 1e-4 or more
RatesDiffer(a, b) ==
    Abs(b[1] * a[2] - a[1] * b[2]) * 10000 >= Abs(b[1] * a[2])

\* C5: at a pair whose rates are not tolerable a warning is printed and the
\* call goes on: it does not raise there.
C5_RateChangeNonFatal ==
    (/\ pc = "raised"
     /\ cur >= 1
     /\ cur < numtraces
     /\ mstg[cur].samprate # Zero
     /\ mstg[cur + 1].samprate # Zero)
        => ~ RatesDiffer(mstg[cur].samprate, mstg[cur + 1].samprate)

\* C6: every descriptor is for a pair of traces of one identifier.
C6_SameIdentifierOnly ==
    \A k \in 1..Len(gap_list) :
        /\ CurOf(k).network = NextOf(k).network
        /\ CurOf(k).station = NextOf(k).station
        /\ CurOf(k).location = NextOf(k).location
        /\ CurOf(k).channel = NextOf(k).channel

\* C7: a group of zero traces or of one trace returns the empty list without
\* raising, and descriptors are in the order of their pairs.
C7_EmptyForFewTraces ==
    /\ (Ended /\ numtraces <= 1) => (Returned /\ gap_list = <<>>)
    /\ \A j, k \in 1..Len(pairs) : j < k => pairs[j] < pairs[k]

\* C8: a pair whose cur has rate 0 gives no descriptor, and the step that
\* skips it moves on to the next pair with the call still running.
C8_ZeroRateSkipped ==
    /\ [](\A k \in 1..Len(gap_list) : CurOf(k).samprate[1] # 0)
    /\ [][(pc = "loop" /\ i < numtraces - 1 /\ mstg[cur].samprate[1] = 0)
            => (/\ pc' = "loop"
                /\ cur' = cur + 1
                /\ i' = i + 1
                /\ gap_list' = gap_list)]_vars

\* C8 witness: a rate 0 trace was skipped and the pair after it was listed
C8_Witness ==
    /\ Returned
    /\ \E k \in 1..Len(pairs) :
           /\ pairs[k] > 1
           /\ mstg[pairs[k] - 1].samprate[1] = 0

\* the file is one trace cut in two records: same identifier, same non-zero
\* rate, the second record starting `periods` sample periods after the last
\* sample of the first
SplitTrace(periods) ==
    /\ Len(file) = 2
    /\ min_gap = None
    /\ max_gap = None
    /\ file[1].network = file[2].network
    /\ file[1].station = file[2].station
    /\ file[1].location = file[2].location
    /\ file[1].channel = file[2].channel
    /\ file[1].samprate = file[2].samprate
    /\ file[1].samprate[1] > 0
    /\ (file[2].starttime -
            (file[1].starttime +
             ((file[1].samplecnt - 1) * 1000000 * file[1].samprate[2])
                 \div file[1].samprate[1])) * file[1].samprate[1]
         = periods * 1000000 * file[1].samprate[2]

\* C9: a trace split in two with no time missing has an empty gap list; with
\* one sample missing it has one descriptor, of gap > 0 and 1 sample.
C9_SplitTrace ==
    /\ (Ended /\ SplitTrace(1)) => (Returned /\ gap_list = <<>>)
    /\ (Ended /\ SplitTrace(2)) =>
           /\ Returned
           /\ Len(gap_list) = 1
           /\ gap_list[1][7][1] > 0
           /\ gap_list[1][8] = <<1, 1>>

\* C9 witness: the call on a file split with nothing missing has returned
C9_Witness == Returned /\ SplitTrace(1)

\* the call on a file split with one sample missing has returned
C9_WitnessOneMissing == Returned /\ SplitTrace(2) /\ Len(gap_list) = 1

-----------------------------------------------------------------------------
(* Properties of graph_create_min_max_list, checked under SpecEnv.         *)

\* C10: whenever the call on a single trace returns (having read nothing but
\* samples of the trace), the returned list has exactly `width` columns,
\* without a window and with one.
C10_WidthColumns ==
    (Returned /\ ~ SomeOutOfBuffer(mstg[1], spans)) =>
        Len(minmaxlist) = width

\* the whole-trace case alone returns `width` columns
C10_NoWindowWidth ==
    (Returned /\ WholeGraph(timespan)) => Len(minmaxlist) = width

\* number of samples in the slices sp[1..k]
RECURSIVE SpanSum(_, _)
SpanSum(sp, k) ==
    IF k = 0 THEN 0 ELSE SpanSum(sp, k - 1) + (sp[k][2] - sp[k][1])

\* C11: without a window every sample index of the trace lies in exactly one
\* column's slice, the remainder of numsamples / width included, and the
\* slice lengths add up to numsamples.
C11_EverySampleInOneColumn ==
    (Returned /\ WholeGraph(timespan)) =>
        /\ \A k \in 0..(mstg[1].numsamples - 1) :
               Cardinality({c \in 1..Len(spans) :
                               spans[c][1] <= k /\ k < spans[c][2]}) = 1
        /\ SpanSum(spans, Len(spans)) = mstg[1].numsamples

\* the samples with indices in [lo, hi)
SamplesIn(chain, lo, hi) ==
    {chain.datasamples[k + 1] : k \in lo..(hi - 1)}

WindowStart == MicrosOf(timespan[1])
WindowEnd == MicrosOf(timespan[2])

\* column c of the window (counted from 1, (WindowEnd - WindowStart) / width
\* long) ends at or before the trace's first sample
ColumnBefore(c) ==
    WindowStart * width + c * (WindowEnd - WindowStart)
        <= mstg[1].starttime * width

\* column c of the window starts after the trace's last sample
ColumnAfter(c) ==
    WindowStart * width + (c - 1) * (WindowEnd - WindowStart)
        > mstg[1].endtime * width

\* C13: a windowed call returns k_start empty columns, then populated ones
\* only, then k_end empty columns, k_start and k_end being the whole columns
\* of the window before the trace's start and after its end; no populated
\* column lies wholly outside the trace.
C13_EmptyColumnsOutsideTrace ==
    (Returned /\ ~ WholeGraph(timespan)) =>
        LET n == Len(minmaxlist)
            k_start == Cardinality({c \in 1..width : ColumnBefore(c)})
            k_end == Cardinality({c \in 1..width : ColumnAfter(c)})
        IN  /\ k_start + k_end <= n
            /\ \A c \in 1..n :
                   (minmaxlist[c] = <<>>) <=> (c <= k_start \/ c > n - k_end)
            /\ \A c \in 1..n :
                   (ColumnBefore(c) \/ ColumnAfter(c)) => minmaxlist[c] = <<>>

\* a single trace was asked for with a window of two calendar times
TwoTimes ==
    /\ numtraces = 1
    /\ ~ WholeGraph(timespan)
    /\ timespan[1].type = "datetime"
    /\ timespan[2].type = "datetime"

\* the window lies entirely outside the trace, or is inverted
WindowOutsideOrInverted ==
    \/ WindowEnd < mstg[1].starttime
    \/ WindowStart > mstg[1].endtime
    \/ WindowStart >= WindowEnd

\* the window starts before the trace's first sample and ends after its last
StrictlyEncloses ==
    WindowStart < mstg[1].starttime /\ WindowEnd > mstg[1].endtime

\* C15 as stated: a windowed call fails with the invalid-window error exactly
\* when the window lies entirely outside the trace or is inverted; a window
\* with start < end that covers part of the trace returns an envelope.
C15_InvalidWindowRule ==
    (Ended /\ TwoTimes) =>
        IF WindowOutsideOrInverted
        THEN pc = "raised" /\ err = "ValueError"
        ELSE Returned

\* C15 amended: a windowed call fails with ValueError and returns no column
\* whenever the window does not strictly enclose the trace (a partial range
\* inside the trace, a window outside it and an inverted one included); only
\* a window that starts before the trace and ends after it can return.
C15_EnclosingWindowOnly ==
    (Ended /\ TwoTimes) =>
        /\ ~ StrictlyEncloses =>
               (pc = "raised" /\ err = "ValueError" /\ minmaxlist = <<>>)
        /\ Returned => StrictlyEncloses

\* C15 witness: a window that covers the first seconds of a longer trace was
\* rejected
C15_Witness ==
    /\ pc = "raised"
    /\ TwoTimes
    /\ WindowStart = mstg[1].starttime
    /\ WindowStart < WindowEnd
    /\ WindowEnd < mstg[1].endtime

\* exactly one of the two times of the timespan is 0
OneZeroBound ==
    /\ Len(timespan) = 2
    /\ (timespan[1] = PyZero) # (timespan[2] = PyZero)

\* C16: a timespan with exactly one time 0 stands for the file's own start
\* (first element) or end (second element), and the call on a single trace
\* returns an envelope instead of failing.
C16_ZeroBoundIsFileTime ==
    (Ended /\ numtraces = 1 /\ OneZeroBound) => Returned

-----------------------------------------------------------------------------
(* Properties of both downsampling operations, checked under SpecEnv and   *)
(* SpecMinMaxList.                                                         *)

\* C14: a downsampling call on a group whose number of traces is not 1 ends
\* with an error and no envelope; it never returns columns of the first
\* trace.
C14_MultiTraceRejected ==
    (Ended /\ numtraces # 1) => (pc = "raised" /\ minmaxlist = <<>>)

-----------------------------------------------------------------------------
(* Properties of isRateTolerable, checked under SpecRate.                  *)

\* |1 - sr1 / sr2| times 10000, compared with 1, both scaled by the
\* denominators: the two sides of the comparison
RelativeDifference == 
    Abs(args.sr1[2] * args.sr2[1] - args.sr1[1] * args.sr2[2]) * 10000
Unit == Abs(args.sr1[2] * args.sr2[1])

\* isRateTolerable(100.0, 100.005) is true, isRateTolerable(100.0, 100.02)
\* is false
RateScenarios ==
    /\ (args.sr1 = <<100, 1>> /\ args.sr2 = <<20001, 200>>) => ret = TRUE
    /\ (args.sr1 = <<100, 1>> /\ args.sr2 = <<5001, 50>>) => ret = FALSE

\* C17 as stated: isRateTolerable(sr1, sr2) is true exactly when
\* |1 - sr1/sr2| < 0.0001, so a relative difference of exactly 1e-4 is not
\* tolerable; (100.0, 100.005) is tolerable and (100.0, 100.02) is not.
C17_StrictTolerance ==
    Returned =>
        /\ ret = (RelativeDifference < Unit)
        /\ RateScenarios

\* C17 amended: isRateTolerable(sr1, sr2) is true when |1 - sr1/sr2| is below
\* 0.0001 and also when it is exactly 0.0001 (the quotient is rounded to a
\* double that is nearer to 1), and false when it is above; (100.0, 100.005)
\* is tolerable and (100.0, 100.02) is not.
C17_ToleranceWithRounding ==
    Returned =>
        /\ ret = (RelativeDifference <= Unit)
        /\ RateScenarios

\* C17 witness: 9999 Hz against 10000 Hz, a relative difference of exactly
\* 1e-4, was found tolerable
C17_Witness ==
    /\ Returned
    /\ args.sr1 = <<9999, 1>>
    /\ args.sr2 = <<10000, 1>>
    /\ ret = TRUE

-----------------------------------------------------------------------------
(* Properties of write_ms, cut_ms and read_ms_using_traces, checked under  *)
(* SpecWrite.                                                              *)

\* C18: a trace written by write_ms with flush on and read back by
\* read_ms_using_traces comes back as one trace with exactly the original
\* samples and the same identifier, start time, sample rate and sample count.
C18_RoundTrip ==
    (Returned /\ op = "write_ms" /\ args.flush) =>
        /\ ret.data = [k \in 1..Len(args.data) |-> PyInt(args.data[k])]
        /\ ret.numtraces = 1
        /\ ret.header.network = header.network
        /\ ret.header.station = header.station
        /\ ret.header.location = header.location
        /\ ret.header.channel = header.channel
        /\ ret.header.starttime = header.starttime
        /\ ret.header.samprate = header.samprate
        /\ ret.header.samplecnt = header.samplecnt

\* C19: the handler is given every packed record once, in sample order:
\* the samples of the records written so far followed by the samples still
\* pending are the samples of the trace; a record that is not full is the
\* last one and is written only with flush on; after mst_pack returns
\* nothing is pending with flush on, and with flush off the pending samples
\* are those that do not fill a record.
C19_RecordDelivery ==
    (pc \in {"packing", "written"}) =>
        /\ FileWords(file) \o datasamples =
               PopulatedWords(WriteData, header.numsamples, build)
        /\ \A k \in 1..Len(file) :
               \/ file[k].samplecnt = RecSamples
               \/ k = Len(file) /\ Flush /\ datasamples = <<>>
        /\ \A k \in 1..(Len(file) - 1) :
               file[k].starttime < file[k + 1].starttime
        /\ pc = "written" =>
               /\ Flush => datasamples = <<>>
               /\ ~ Flush =>
                      /\ Len(datasamples) = header.numsamples % RecSamples
                      /\ Len(file) = header.numsamples \div RecSamples

\* C19 witness: with flush off a full record was written and the samples
\* after it were kept pending
C19_Witness ==
    /\ pc = "written"
    /\ ~ Flush
    /\ Len(file) >= 1
    /\ datasamples # <<>>

\* C19 witness with flush on: a full record and a short one were written
C19_WitnessFlush ==
    /\ pc = "written"
    /\ Flush
    /\ Len(file) >= 2
    /\ file[Len(file)].samplecnt < RecSamples

\* start <= end and end = start + round((samplecnt - 1) / samprate * 10^6)
\* for a header or trace with a positive rate and at least one sample
TimeInvariant(h) ==
    (h.samprate[1] > 0 /\ h.samplecnt >= 1) =>
        /\ h.starttime <= h.endtime
        /\ h.endtime = h.starttime +
               (2 * (h.samplecnt - 1) * 1000000 * h.samprate[2] +
                    h.samprate[1]) \div (2 * h.samprate[1])

\* C20: every header the library writes and every trace it assembles has
\* start <= end and end = start + round((samplecnt - 1) / samprate * 10^6),
\* the header cut_ms has rewritten included.
C20_TraceTimeInvariant ==
    /\ TimeInvariant(header)
    /\ \A t \in 1..Len(mstg) : TimeInvariant(mstg[t])

-----------------------------------------------------------------------------
(* Properties of the trace assembly, checked under SpecGap.                *)

\* the group assembled from the first k records of the file
GroupOf(k) == readTraces(SubSeq(file, 1, k))

\* index in g of the open trace of r's identifier: the last trace with that
\* identifier, 0 if there is none
OpenTrace(g, r) ==
    LET S == {j \in 1..Len(g) : g[j].network = r.network
                                /\ g[j].station = r.station
                                /\ g[j].location = r.location
                                /\ g[j].channel = r.channel}
    IN  IF S = {} THEN 0 ELSE SetMax(S)

\* both rates are non-zero and tolerable and r starts within half a sample
\* period of t.endtime + 1/t.samprate (in microseconds, scaled by the
\* numerator of the rate)
Mergeable(t, r) ==
    /\ t.samprate # Zero
    /\ r.samprate # Zero
    /\ isRateTolerable(t.samprate, r.samprate)
    /\ Abs((r.starttime - t.endtime) * t.samprate[1]
               - 1000000 * t.samprate[2])
           <= (1000000 * t.samprate[2]) \div 2

\* the records of the file have one identifier and one non-zero rate and
\* each starts after the end of the one before it
InOrderOneStream ==
    /\ \A k \in 1..Len(file) :
           /\ file[k].channel = file[1].channel
           /\ file[k].samprate = file[1].samprate
           /\ file[k].samprate # Zero
    /\ \A k \in 2..Len(file) : file[k].starttime > RecEnd(file[k - 1])

\* the records that do not start one sample period (within half a period)
\* after the end of the record before them
SegmentBreaks ==
    {k \in 2..Len(file) :
        Abs((file[k].starttime - RecEnd(file[k - 1])) * file[k].samprate[1]
                - 1000000 * file[k].samprate[2])
            > (1000000 * file[k].samprate[2]) \div 2}

\* C21: when the file has been read (the traces do not depend on min_gap and
\* max_gap, the call without them is looked at), every record k either
\* extended the open trace of its identifier (sample count added, end time
\* recomputed, start time and every other trace unchanged), which happens
\* exactly when the
\* rates are non-zero and tolerable and the record starts within half a
\* sample period of end time + 1/rate, or left the group as it was and added
\* a new trace holding only that record; the number of traces never
\* decreases, and in-order records of one stream give one trace per
\* continuous segment.
C21_MergeRule ==
    (pc = "loop" /\ i = 0 /\ min_gap = None /\ max_gap = None) =>
        /\ \A k \in 1..Len(file) :
               LET g == GroupOf(k - 1)
                   g2 == GroupOf(k)
                   r == file[k]
                   o == OpenTrace(g, r)
               IN  /\ Len(g2) >= Len(g)
                   /\ IF o # 0 /\ Mergeable(g[o], r)
                      THEN /\ Len(g2) = Len(g)
                           /\ \A j \in 1..Len(g) : j # o => g2[j] = g[j]
                           /\ g2[o].samplecnt = g[o].samplecnt + r.samplecnt
                           /\ g2[o].starttime = g[o].starttime
                           /\ g2[o].samprate = g[o].samprate
                           /\ g2[o].endtime =
                                  EndTime(g[o].starttime, g[o].samprate,
                                          g[o].samplecnt + r.samplecnt)
                      ELSE /\ SubSeq(g2, 1, Len(g)) = g
                           /\ Len(g2) = Len(g) + 1
                           /\ g2[Len(g2)].starttime = r.starttime
                           /\ g2[Len(g2)].samplecnt = r.samplecnt
                           /\ g2[Len(g2)].samprate = r.samprate
                           /\ g2[Len(g2)].channel = r.channel
                           /\ g2[Len(g2)].endtime = RecEnd(r)
        /\ InOrderOneStream => Len(mstg) = 1 + Cardinality(SegmentBreaks)

\* C21 witness: of three records the second extended the trace of the first
\* and the third, two seconds later, opened a trace of its own
C21_Witness ==
    /\ pc = "loop"
    /\ i = 0
    /\ min_gap = None
    /\ max_gap = None
    /\ Len(file) = 3
    /\ InOrderOneStream
    /\ Len(mstg) = 2
    /\ mstg[1].samplecnt = 2 * RecSamples
    /\ mstg[2].starttime = mstg[1].endtime + 2000000

-----------------------------------------------------------------------------
(* Properties of record-by-record reading, checked under SpecRead.         *)

\* C22: getFirstRecordHeaderInfo on a file with at least one record returns
\* the location, network, station and channel of the first record of the
\* file, whatever calls were made before it (read_MSRec,
\* getFirstRecordHeaderInfo, getStartAndEndTime, readTraces, the reading
\* loops): the result does not depend on earlier calls.
C22_NoGlobalCursor ==
    (Ended /\ op = "getFirstRecordHeaderInfo" /\ file # <<>>) =>
        /\ pc = "done"
        /\ ret = [location |-> file[1].location,
                  network |-> file[1].network,
                  station |-> file[1].station,
                  channel |-> file[1].channel]

\* C23: in the loops of readMSusingRecords and printrecordinfo the call of
\* read_MSRec number k returns record k of the file (after i calls the next
\* record is record i + 1), and the loop ends, without an error, with the
\* call number N + 1 on a file of N records.
C23_ReadLoopVisitsEachRecord ==
    (op \in {"readMSusingRecords", "printrecordinfo"}) =>
        /\ pc = "reading" => (ReadPos = i /\ i <= Len(file))
        /\ Ended => (pc = "done" /\ i = Len(file) + 1)

\* C24: the list readMSusingRecords returns has one [header, data] entry for
\* every record it has read, in the order read, so it is not empty when a
\* record was read; the duplicate check suppresses no record.
C24_EveryRecordListed ==
    (Returned /\ op = "readMSusingRecords" /\ i > 1) =>
        /\ ret # <<>>
        /\ Len(ret) = i - 1
        /\ stdout = <<>>

-----------------------------------------------------------------------------
(* Properties of the time conversions, checked under SpecTime.             *)

-----------------------------------------------------------------------------
(* Properties of cut_ms, checked under SpecWrite.                          *)

\* index of the sample stime microseconds after the start of the trace:
\* stime * samprate / 10^6, rounded down
CutIndex ==
    (args.stime * header.samprate[1]) \div (header.samprate[2] * 1000000)

\* C26: when the cut lies inside the data, the list cut_ms hands to write_ms
\* has exactly cutsamplecount elements, the consecutive samples of data from
\* index stime * samprate / 10^6 on; numsamples and samplecnt of the header
\* written are the length of that list and its starttime is the original
\* starttime + stime.
C26_CutSamples ==
    (op = "cut_ms" /\ pc = "write_ms"
        /\ CutIndex + args.cutsamplecount <= Len(args.data)) =>
        /\ Len(cutdata) = args.cutsamplecount
        /\ cutdata = SubSeq(args.data, CutIndex + 1,
                            CutIndex + args.cutsamplecount)
        /\ header.numsamples = Len(cutdata)
        /\ header.samplecnt = Len(cutdata)
        /\ header.starttime = T0 + args.stime

-----------------------------------------------------------------------------
(* Properties of the rotations, checked under SpecRotate.                  *)

\* the components are of unequal length or an angle is outside [0, 360]
BadRotateArgs ==
    \/ Len(args.first[1]) # Len(args.first[2])
    \/ Len(args.first[1]) # Len(args.first[3])
    \/ args.ba < 0
    \/ args.ba > 360
    \/ args.inc < 0
    \/ args.inc > 360

\* C27: rotate_LQT_ZNE applied to what rotate_ZNE_LQT returned, with the same
\* back azimuth and inclination, gives z, n and e back (at multiples of 90
\* degrees); and both functions, called with components of unequal length or
\* an angle outside [0, 360], raise an error and return nothing, while any
\* other call returns.
C27_RotateInverse ==
    (op \in {"rotate_ZNE_LQT", "rotate_LQT_ZNE"}) =>
        /\ (pc = "back" /\ op = "rotate_ZNE_LQT") => ret = args.first
        /\ (pc # "call" /\ BadRotateArgs) =>
               (pc = "raised" /\ err \in {"TypeError", "ValueError"}
                   /\ ret = None)
        /\ (pc # "call" /\ ~ BadRotateArgs) => pc \in {"done", "back"}

\* C27 witness: components of two samples came back from a rotation by a
\* back azimuth of 90 and an inclination of 270 degrees that changed them
C27_Witness ==
    /\ pc = "back"
    /\ op = "rotate_ZNE_LQT"
    /\ args.ba = 90
    /\ args.inc = 270
    /\ Len(args.first[1]) = 2
    /\ args.first[1] # args.first[2]
    /\ ret = args.first

-----------------------------------------------------------------------------
(* Properties of the windowed envelope, checked under SpecEnv.             *)

\* the columns of the returned list that are populated
Populated == {c \in 1..Len(minmaxlist) : minmaxlist[c] # <<>>}

\* C28: a windowed call with a window that strictly encloses the single
\* trace and a width of at least 2 returns without an error, and the slices
\* of its populated columns are non-empty, follow one another without a hole
\* or an overlap, start at sample 0 and end at the last sample of the trace.
C28_WindowedCoverage ==
    (pc # "call" /\ TwoTimes /\ StrictlyEncloses /\ width >= 2) =>
        /\ Returned
        /\ Populated # {}
        /\ spans[SetMin(Populated)][1] = 0
        /\ spans[SetMax(Populated)][2] = mstg[1].numsamples
        /\ \A c \in Populated :
               /\ spans[c][1] < spans[c][2]
               /\ c < SetMax(Populated) =>
                      (c + 1 \in Populated /\ spans[c + 1][1] = spans[c][2])

-----------------------------------------------------------------------------
(* Properties of the sample counts of getGapList, checked under SpecGap.   *)

\* C29: every descriptor of the gap list has a missing / overlapping sample
\* count that is not negative, whatever the gap, gaps shorter than one
\* sample period of cur included.
C29_NonNegativeSampleCount ==
    \A k \in 1..Len(gap_list) : ~ RLess(gap_list[k][8], Zero)

-----------------------------------------------------------------------------
(* Symmetry of isRateTolerable, checked under SpecRate.                    *)

\* the difference of the two rates relative to `reference`
RelativeTo(reference) ==
    RDiv(RAbs(RSub(args.sr1, args.sr2)), RAbs(reference))

\* the result of the call with the two rates exchanged
Exchanged == isRateTolerable(args.sr2, args.sr1)

\* 1e-4 separates the two relative differences: one of them is at most
\* 1e-4 and the other is above it
ToleranceBetween ==
    \/ /\ ~ RLess(<<1, RateTolInv>>, RelativeTo(args.sr2))
       /\ RLess(<<1, RateTolInv>>, RelativeTo(args.sr1))
    \/ /\ ~ RLess(<<1, RateTolInv>>, RelativeTo(args.sr1))
       /\ RLess(<<1, RateTolInv>>, RelativeTo(args.sr2))

\* C30 as stated: on non-zero rates isRateTolerable(sr1, sr2) equals
\* isRateTolerable(sr2, sr1), and isRateTolerable(sr, sr) is true.
C30_SymmetricReflexive ==
    (Returned /\ args.sr1 # Zero) =>
        /\ ret = Exchanged
        /\ args.sr1 = args.sr2 => ret = TRUE

\* C30 amended: on non-zero rates isRateTolerable(sr, sr) is true, and
\* isRateTolerable(sr1, sr2) differs from isRateTolerable(sr2, sr1) exactly
\* when 1e-4 separates the difference relative to sr1 from the difference
\* relative to sr2; the call that takes the larger rate as sr2 is then the
\* one that is true.
C30_SymmetricOutsideBoundary ==
    (Returned /\ args.sr1 # Zero) =>
        /\ args.sr1 = args.sr2 => ret = TRUE
        /\ (ret # Exchanged) <=> ToleranceBetween
        /\ (ret /\ ~ Exchanged) => RLess(RAbs(args.sr1), RAbs(args.sr2))

\* C30 witness: 9999 Hz is tolerable against 10000 Hz, and 10000 Hz is not
\* tolerable against 9999 Hz
C30_Witness ==
    /\ Returned
    /\ args.sr1 = <<9999, 1>>
    /\ args.sr2 = <<10000, 1>>
    /\ ret = TRUE
    /\ ~ Exchanged

====
